---------------------------- MODULE Spec2Model ----------------------------
(***************************************************************************)
(* A model of zserge/metric (metric.go): the counter, gauge and histogram  *)
(* metrics, the timeseries ("Window") that rolls a ring of metrics over    *)
(* time, its construction from a frame string, and the multimetric.        *)
(*                                                                         *)
(* Specifications, all over one set of variables:                          *)
(*   SpecMetric       a bare metric with Add and Reset;                    *)
(*   SpecCounter      goroutines in the load / compare-and-swap loop of    *)
(*                    counter.Add (SpecCounterFair: fairly scheduled);     *)
(*   SpecWindow       one timeseries of three samples, each method a step; *)
(*   SpecFrame        newTimeseries on a frame string;                     *)
(*   SpecMulti        newMetric with zero, one or several frames;          *)
(*   SpecRing         one timeseries with its samples as pointers and its  *)
(*                    mutexes, each lock and element access a step         *)
(*                    (SpecRingFair: fairly scheduled).                    *)
(*                                                                         *)
(* Arithmetic.  The source computes in float64.  The model feeds integer   *)
(* observations and computes exactly: integers for sums and counts, and    *)
(* normalised fractions <<num, den>> for the two places where the source   *)
(* divides (gauge.mean, the merged bin value of histogram.trim) and for    *)
(* the rank q of histogram.quantile.  On the modelled inputs float64 sums  *)
(* and counts are exact; float64 rounding of quotients is not modelled.    *)
(***************************************************************************)
EXTENDS Integers, Sequences, FiniteSets, TLC

(***************************************************************************)
(* Bounds of the model.                                                    *)
(***************************************************************************)
\* const maxBins = 100 (metric.go:194), scaled down so that trim is reached.
maxBins == 3
\* Observations handed to a bare metric are the integers -1 .. MaxVal.
MaxVal == 2
\* At most MaxObs observations between two Resets of a bare metric.
MaxObs == 5
\* Goroutines calling counter.Add concurrently, and their calls in total.
NThreads == 2
MaxCalls == 3
\* The deltas handed to the concurrent counter are -1 and 1 .. MaxDelta.
MaxDelta == 2

\* The timeseries of the frame "3s1s": NBuckets samples, and an interval of
\* Interval clock units (a unit is half a second for "3s1s", so that both
\* halves of an interval are seen by Round).
NBuckets == 3
Interval == 2
\* The clock reads 0 .. MaxTime units after a start that is a multiple of the
\* interval (mockTime(0) in the tests).
MaxTime == 6
\* At most MaxWAdds Adds to the timeseries, of the values 1 .. MaxWVal.
MaxWAdds == 2
MaxWVal == 2
\* At most MaxFAdds Adds to a timeseries built from a frame.
MaxFAdds == 1
\* At most MaxMAdds Adds to a metric built by newMetric.
MaxMAdds == 2
\* At most MaxRCalls calls on the timeseries whose locks are modelled.
MaxRCalls == 2

Values == (-1) .. MaxVal
WValues == 1 .. MaxWVal
Times == 0 .. MaxTime
Threads == 1 .. NThreads
Deltas == {-1} \cup (1 .. MaxDelta)

(***************************************************************************)
(* Exact fractions <<num, den>>, den > 0, in lowest terms.                 *)
(***************************************************************************)
Abs(x) == IF x < 0 THEN -x ELSE x

RECURSIVE GCD(_, _)
GCD(a, b) == IF b = 0 THEN a ELSE GCD(b, a % b)

Frac(n, d) ==
  LET s == IF d < 0 THEN -1 ELSE 1
      k == GCD(Abs(n), Abs(d))
  IN  <<(s * n) \div k, (s * d) \div k>>

FInt(n) == <<n, 1>>
FLt(a, b) == a[1] * b[2] < b[1] * a[2]
FLe(a, b) == a[1] * b[2] <= b[1] * a[2]
FSub(a, b) == Frac(a[1] * b[2] - b[1] * a[2], a[2] * b[2])
FAdd(a, b) == Frac(a[1] * b[2] + b[1] * a[2], a[2] * b[2])
FMulInt(a, k) == Frac(a[1] * k, a[2])
FDivInt(a, k) == Frac(a[1], a[2] * k)

(***************************************************************************)
(* counter                                                                 *)
(***************************************************************************)
NewCounterValue == [type |-> "c", count |-> 0]

\* counter.Reset: atomic.StoreUint64(&c.count, math.Float64bits(0))
CounterReset(c) == [c EXCEPT !.count = 0]

\* counter.value
CounterValue(c) == c.count

\* counter.Add run to completion with no other writer in between: the loop
\* reads old, and its compare-and-swap installs old + n.
CounterAdd(c, n) == [c EXCEPT !.count = c.count + n]

\* counter.MarshalJSON
CounterJSON(c) == [type |-> "c", count |-> CounterValue(c)]

(***************************************************************************)
(* gauge                                                                   *)
(***************************************************************************)
NewGaugeValue == [type |-> "g", sum |-> 0, min |-> 0, max |-> 0, count |-> 0]

\* A Reset that forgets one field.
GaugeResetBug(g) == [g EXCEPT !.count = 0, !.sum = 0, !.max = 0]

\* gauge.Reset
GaugeReset(g) == [g EXCEPT !.count = 0, !.sum = 0, !.min = 0, !.max = 0]

\* An Add without the count == 0 case.
GaugeAddBug(g, n) ==
  [g EXCEPT !.min = IF n < g.min THEN n ELSE g.min,
            !.max = IF n > g.max THEN n ELSE g.max,
            !.sum = g.sum + n,
            !.count = g.count + 1]

\* gauge.Add
GaugeAdd(g, n) ==
  [g EXCEPT !.min = IF n < g.min \/ g.count = 0 THEN n ELSE g.min,
            !.max = IF n > g.max \/ g.count = 0 THEN n ELSE g.max,
            !.sum = g.sum + n,
            !.count = g.count + 1]

\* gauge.mean
GaugeMean(g) == IF g.count = 0 THEN FInt(0) ELSE Frac(g.sum, g.count)

\* gauge.MarshalJSON
GaugeJSON(g) ==
  [type |-> "g", mean |-> GaugeMean(g), min |-> g.min, max |-> g.max]

(***************************************************************************)
(* histogram.  A bin is [value, count]; value is a fraction.               *)
(***************************************************************************)
NewHistogramValue == [type |-> "h", bins |-> <<>>, total |-> 0]

\* histogram.Reset
HistogramReset(h) == [h EXCEPT !.bins = <<>>, !.total = 0]

\* The loop of histogram.Add: the index (from 1) of the first bin whose value
\* is greater than n, or Len(bins) + 1 when there is none.
RECURSIVE FirstGreater(_, _, _)
FirstGreater(bins, n, i) ==
  IF i > Len(bins) THEN i
  ELSE IF FLt(FInt(n), bins[i].value) THEN i
  ELSE FirstGreater(bins, n, i + 1)

\* An Add that always appends.
InsertAtEnd(bins, n) == Append(bins, [value |-> FInt(n), count |-> 1])

\* histogram.Add, lines 220-228: the new bin goes before the first bin of a
\* greater value, or to the end.
InsertBin(bins, n) ==
  LET i == FirstGreater(bins, n, 1)
      newbin == [value |-> FInt(n), count |-> 1]
  IN  SubSeq(bins, 1, i - 1) \o <<newbin>> \o SubSeq(bins, i, Len(bins))

\* A scan that keeps the largest gap.
RECURSIVE ScanLargestGap(_, _, _, _)
ScanLargestGap(bins, j, d, i) ==
  IF j > Len(bins) THEN i
  ELSE LET dv == FSub(bins[j].value, bins[j - 1].value)
       IN  IF FLt(d, dv) \/ j = 2
           THEN ScanLargestGap(bins, j + 1, dv, j)
           ELSE ScanLargestGap(bins, j + 1, d, i)

\* A scan in which the last of several smallest gaps wins.
RECURSIVE ScanLastGap(_, _, _, _)
ScanLastGap(bins, j, d, i) ==
  IF j > Len(bins) THEN i
  ELSE LET dv == FSub(bins[j].value, bins[j - 1].value)
       IN  IF FLe(dv, d) \/ j = 2
           THEN ScanLastGap(bins, j + 1, dv, j)
           ELSE ScanLastGap(bins, j + 1, d, i)

\* The scan of histogram.trim, lines 244-251, with j and i counted from 1:
\* j walks the second bin of each adjacent pair, d is the smallest gap so
\* far and i the second bin of the pair that has it.
RECURSIVE ScanGap(_, _, _, _)
ScanGap(bins, j, d, i) ==
  IF j > Len(bins) THEN i
  ELSE LET dv == FSub(bins[j].value, bins[j - 1].value)
       IN  IF FLt(dv, d) \/ j = 2
           THEN ScanGap(bins, j + 1, dv, j)
           ELSE ScanGap(bins, j + 1, d, i)

\* A merge that keeps only the first bin's count.
MergedDropsWeight(a, b) ==
  LET count == a.count + b.count
  IN  [value |-> FDivInt(FAdd(FMulInt(a.value, a.count),
                              FMulInt(b.value, b.count)), count),
       count |-> a.count]

\* histogram.trim, lines 252-256: the bin that replaces bins i-1 and i.
Merged(a, b) ==
  LET count == a.count + b.count
  IN  [value |-> FDivInt(FAdd(FMulInt(a.value, a.count),
                              FMulInt(b.value, b.count)), count),
       count |-> count]

\* One pass of the loop of histogram.trim.
TrimStep(bins) ==
  LET i == ScanGap(bins, 2, FInt(0), 1)
  IN  SubSeq(bins, 1, i - 2) \o <<Merged(bins[i - 1], bins[i])>>
        \o SubSeq(bins, i + 1, Len(bins))

\* histogram.trim
RECURSIVE Trim(_)
Trim(bins) == IF Len(bins) > maxBins THEN Trim(TrimStep(bins)) ELSE bins

\* histogram.Add; the deferred trim runs before the lock is released.
HistogramAdd(h, n) ==
  [h EXCEPT !.total = h.total + 1, !.bins = Trim(InsertBin(h.bins, n))]

\* histogram.quantile: q is a fraction; count starts at q * total and the
\* first bin that brings it to 0 or below gives the value.
RECURSIVE QuantileFrom(_, _, _)
QuantileFrom(bins, count, i) ==
  IF i > Len(bins) THEN FInt(0)
  ELSE LET c == FSub(count, FInt(bins[i].count))
       IN  IF FLe(c, FInt(0)) THEN bins[i].value
           ELSE QuantileFrom(bins, c, i + 1)

Quantile(h, q) == QuantileFrom(h.bins, FMulInt(q, h.total), 1)

\* The ranks histogram.MarshalJSON asks for: 0.5, 0.9, 0.99.
P50 == Frac(1, 2)
P90 == Frac(9, 10)
P99 == Frac(99, 100)

\* histogram.MarshalJSON
HistogramJSON(h) ==
  [type |-> "h", p50 |-> Quantile(h, P50), p90 |-> Quantile(h, P90),
   p99 |-> Quantile(h, P99)]

(***************************************************************************)
(* The Metric interface: dispatch on the dynamic type.                     *)
(***************************************************************************)
\* The builders of NewCounter, NewGauge, NewHistogram.
Builder(kind) ==
  CASE kind = "c" -> NewCounterValue
    [] kind = "g" -> NewGaugeValue
    [] kind = "h" -> NewHistogramValue

Kinds == {"c", "g", "h"}

MetricAdd(m, n) ==
  CASE m.type = "c" -> CounterAdd(m, n)
    [] m.type = "g" -> GaugeAdd(m, n)
    [] m.type = "h" -> HistogramAdd(m, n)

MetricReset(m) ==
  CASE m.type = "c" -> CounterReset(m)
    [] m.type = "g" -> GaugeReset(m)
    [] m.type = "h" -> HistogramReset(m)

MetricJSON(m) ==
  CASE m.type = "c" -> CounterJSON(m)
    [] m.type = "g" -> GaugeJSON(m)
    [] m.type = "h" -> HistogramJSON(m)

(***************************************************************************)
(* timeseries                                                              *)
(***************************************************************************)
\* The zero time.Time, the value of timeseries.now before the first roll.
ZeroTime == -1

\* The kinds of metric the timeseries is built of here.
WKinds == {"c", "g"}

\* newTimeseries, lines 297-301: n samples from the builder; now is left at
\* the zero time.
NewTimeseries(kind) ==
  [now |-> ZeroTime, interval |-> Interval,
   samples |-> [i \in 1 .. NBuckets |-> Builder(kind)]]

\* A Round that truncates.
RoundDown(t, d) == IF t = ZeroTime THEN ZeroTime ELSE t - (t % d)

\* time.Time.Round(d): to the nearest multiple of d since the zero time,
\* halfway values round up.  Clock readings count from a multiple of d.
Round(t, d) ==
  IF t = ZeroTime THEN ZeroTime
  ELSE LET r == t % d
       IN  IF r + r < d THEN t - r ELSE t + (d - r)

\* time.Time.Sub saturates at the largest Duration (about 292 years): that is
\* what the distance from the zero time to any clock reading gives.  It is
\* more than the total of any timeseries; the largest 32-bit integer stands
\* for it.
MaxDuration == 2147483647

TimeSub(a, b) == IF b = ZeroTime THEN MaxDuration ELSE a - b

\* The number of the interval that clock reading t is counted in.
Slot(t) == Round(t, Interval) \div Interval

\* timeseries.Reset, applied to the samples.
ResetAll(samples) == [i \in DOMAIN samples |-> MetricReset(samples[i])]

\* timeseries.roll, lines 66-71: one pass of the loop.
Rotate1(samples) ==
  LET n == Len(samples)
  IN  <<MetricReset(samples[n])>> \o SubSeq(samples, 1, n - 1)

\* timeseries.roll, lines 65-72.
RECURSIVE Rotate(_, _)
Rotate(samples, k) ==
  IF k = 0 THEN samples ELSE Rotate(Rotate1(samples), k - 1)

\* A tick count that counts the current interval too.
TicksPlusOne(w, t) ==
  TimeSub(Round(t, w.interval), Round(w.now, w.interval)) \div w.interval + 1

\* timeseries.roll, line 56: the intervals gone by since ts.now.  Both
\* rounded readings are multiples of the interval, so the division is exact.
Ticks(w, t) ==
  TimeSub(Round(t, w.interval), Round(w.now, w.interval)) \div w.interval

\* timeseries.roll at clock reading t.
Roll(w, t) ==
  LET roll == Ticks(w, t)
  IN  IF roll <= 0 THEN [w EXCEPT !.now = t]
      ELSE IF roll >= Len(w.samples)
           THEN [w EXCEPT !.now = t, !.samples = ResetAll(w.samples)]
           ELSE [w EXCEPT !.now = t, !.samples = Rotate(w.samples, roll)]

\* An Add into the oldest sample.
AddToLast(w, n) ==
  [w EXCEPT !.samples[Len(w.samples)] = MetricAdd(@, n)]

\* timeseries.Add, line 80, after the roll.
AddToFirst(w, n) == [w EXCEPT !.samples[1] = MetricAdd(@, n)]

\* timeseries.MarshalJSON, lines 87-90, after the roll: the struct that is
\* marshalled.  The interval is given in clock units.
TimeseriesJSON(w) ==
  [interval |-> w.interval,
   samples |-> [i \in DOMAIN w.samples |-> MetricJSON(w.samples[i])]]

(***************************************************************************)
(* newTimeseries: the frame string.  A frame is modelled as the sequence   *)
(* of its characters; durations of frames are counted in seconds.          *)
(***************************************************************************)
Second == 1
Minute == 60
Hour == 3600

\* The map units of newTimeseries, lines 278-286; a rune that is not a key
\* gives the zero Duration.
Units(ch) ==
  CASE ch = "s" -> Second
    [] ch = "m" -> Minute
    [] ch = "h" -> Hour
    [] ch = "d" -> Hour * 24
    [] ch = "w" -> Hour * 24 * 7
    [] ch = "M" -> Hour * 24 * 7 * 30
    [] ch = "y" -> Hour * 24 * 7 * 365
    [] OTHER -> 0

Digits == <<"0", "1", "2", "3", "4", "5", "6", "7", "8", "9">>

DigitVal(ch) == (CHOOSE i \in DOMAIN Digits : Digits[i] = ch) - 1

\* The digits that %d reads from the front of s, after the value acc read
\* so far; any tells whether a digit was read.
RECURSIVE ScanDigits(_, _, _)
ScanDigits(s, acc, any) ==
  IF s # <<>> /\ (\E i \in DOMAIN Digits : Digits[i] = s[1])
  THEN ScanDigits(Tail(s), acc * 10 + DigitVal(s[1]), TRUE)
  ELSE [ok |-> any, val |-> acc, rest |-> s]

\* The verb %d of fmt.Sscanf: an optional sign, then decimal digits; it
\* fails at the end of the input and when no digit follows.
ScanInt(s) ==
  IF s # <<>> /\ s[1] \in {"+", "-"}
  THEN LET r == ScanDigits(Tail(s), 0, FALSE)
       IN  [r EXCEPT !.val = IF s[1] = "-" THEN 0 - r.val ELSE r.val]
  ELSE ScanDigits(s, 0, FALSE)

\* The verb %c: the next rune, whatever it is; it fails at the end of the
\* input.
ScanChar(s) ==
  IF s = <<>> THEN [ok |-> FALSE, val |-> "", rest |-> s]
  ELSE [ok |-> TRUE, val |-> s[1], rest |-> Tail(s)]

\* fmt.Sscanf(frame, "%d%c%d%c", ...), line 287: scanning stops at the first
\* verb that fails, and the variables not yet assigned keep their zero value
\* (the error is ignored).
Sscanf(frame) ==
  LET zero == [totalNum |-> 0, totalUnit |-> "",
               intervalNum |-> 0, intervalUnit |-> ""]
      a == ScanInt(frame)
      b == ScanChar(a.rest)
      d == ScanInt(b.rest)
      e == ScanChar(d.rest)
  IN  IF ~a.ok THEN zero
      ELSE IF ~b.ok THEN [zero EXCEPT !.totalNum = a.val]
      ELSE IF ~d.ok THEN [zero EXCEPT !.totalNum = a.val, !.totalUnit = b.val]
      ELSE IF ~e.ok
           THEN [zero EXCEPT !.totalNum = a.val, !.totalUnit = b.val,
                             !.intervalNum = d.val]
           ELSE [totalNum |-> a.val, totalUnit |-> b.val,
                 intervalNum |-> d.val, intervalUnit |-> e.val]

\* Lines 288-291.
FrameInterval(frame) ==
  LET f == Sscanf(frame)
      interval == Units(f.intervalUnit) * f.intervalNum
  IN  IF interval = 0 THEN Minute ELSE interval

\* Lines 292-295.
FrameTotal(frame) ==
  LET f == Sscanf(frame)
      totalDuration == Units(f.totalUnit) * f.totalNum
  IN  IF totalDuration = 0 THEN FrameInterval(frame) * 15 ELSE totalDuration

\* Go's integer division, which truncates toward zero.
Quo(a, b) ==
  IF (a < 0) = (b < 0) THEN Abs(a) \div Abs(b) ELSE 0 - (Abs(a) \div Abs(b))

\* n := int(totalDuration / interval), line 296.
FrameSamples(frame) == Quo(FrameTotal(frame), FrameInterval(frame))

\* newTimeseries(builder, frame) when make([]Metric, n, n) succeeds, lines
\* 297-301.
NewTimeseriesOf(kind, frame) ==
  [now |-> ZeroTime, interval |-> FrameInterval(frame),
   samples |-> [i \in 1 .. FrameSamples(frame) |-> Builder(kind)]]

\* The frames newTimeseries is tried on.
Frames ==
  { <<"3", "s", "1", "s">>, <<"1", "0", "s", "1", "s">>,
    <<"1", "5", "m", "1", "0", "s">>, <<"1", "h", "1", "m">>,
    <<"1", "d", "1", "h">>, <<"2", "w", "1", "d">>,
    <<"1", "M", "1", "d">>, <<"1", "M", "1", "w">>,
    <<"1", "y", "1", "d">>, <<"1", "y", "1", "M">>,
    <<"2", "m", "s", "1", "s">>, <<"5", "m">>, <<"1", "0">>,
    <<>>, <<"x">>, <<"7", "q", "1", "s">>, <<"3", "s", "1", "q">>,
    <<"1", "s", "1", "m">>, <<"5", "9", "s", "1", "m">>,
    <<"0", "s", "1", "s">>, <<"3", "s", "0", "s">>,
    <<"-", "3", "s", "1", "s">>, <<"3", "s", "-", "1", "s">>,
    <<"-", "1", "s", "1", "m">>, <<"+", "3", "s", "1", "s">> }

(***************************************************************************)
(* newMetric and multimetric.  A multimetric is the sequence of its        *)
(* members; at ts(kind, frames) a metric of the given frames is the bare   *)
(* metric, one timeseries, or a multimetric.                               *)
(***************************************************************************)
\* mm := multimetric{}; for _, frame := range frames { mm = append(...) },
\* lines 311-315, from frame number i on.
RECURSIVE AppendTimeseries(_, _, _)
AppendTimeseries(kind, frames, i) ==
  IF i > Len(frames) THEN <<>>
  ELSE <<NewTimeseriesOf(kind, frames[i])>>
         \o AppendTimeseries(kind, frames, i + 1)

\* newMetric(builder, frames...)
NewMetric(kind, frames) ==
  IF Len(frames) = 0 THEN Builder(kind)
  ELSE IF Len(frames) = 1 THEN NewTimeseriesOf(kind, frames[1])
  ELSE AppendTimeseries(kind, frames, 1)

\* A multimetric.Add that reaches the first member only.
AddFirstOnly(members, i, t, n) ==
  <<AddToFirst(Roll(members[1], t), n)>> \o Tail(members)

\* multimetric.Add(n), lines 100-104, from member i on: each member's
\* timeseries.Add in turn, with the clock at t.
RECURSIVE MultiAdd(_, _, _, _)
MultiAdd(members, i, t, n) ==
  IF i > Len(members) THEN <<>>
  ELSE <<AddToFirst(Roll(members[i], t), n)>>
         \o MultiAdd(members, i + 1, t, n)

\* multimetric.Reset, lines 106-110, from member i on: each member's
\* timeseries.Reset in turn.
RECURSIVE MultiReset(_, _)
MultiReset(members, i) ==
  IF i > Len(members) THEN <<>>
  ELSE <<[members[i] EXCEPT !.samples = ResetAll(members[i].samples)]>>
         \o MultiReset(members, i + 1)

\* The members after the roll that each member's String does, from member i
\* on.
RECURSIVE MultiRoll(_, _, _)
MultiRoll(members, i, t) ==
  IF i > Len(members) THEN <<>>
  ELSE <<Roll(members[i], t)>> \o MultiRoll(members, i + 1, t)

\* multimetric.String, lines 112-120, on members that have rolled: the
\* members' strings in order between {"metrics":[ and ]}.
RECURSIVE JoinStrings(_, _)
JoinStrings(members, i) ==
  IF i > Len(members) THEN <<>>
  ELSE <<TimeseriesJSON(members[i])>> \o JoinStrings(members, i + 1)

MultiString(members) == [metrics |-> JoinStrings(members, 1)]

(***************************************************************************)
(* State.                                                                  *)
(*   m, obs, lastOp, preLen: one bare metric (NewCounter(), NewGauge() or  *)
(*   NewHistogram() with no frames), the observations it was given since   *)
(*   its last Reset, the last operation and Len(obs) before it.            *)
(*   c, pc, old, arg: one counter shared by the goroutines of Threads, and *)
(*   each goroutine's place in counter.Add (idle, load, cas), the value it *)
(*   loaded and its argument.  acc is the sum of the deltas of the Adds    *)
(*   that have returned since the last Reset, issued the sum of the deltas *)
(*   of all Adds called, calls their number, everReset whether Reset was   *)
(*   called, retried whether a compare-and-swap has failed.                *)
(*   ts, clock: one timeseries and the reading of now().  wadds counts the *)
(*   Adds; wentBack and wasReset tell whether the clock was ever set back  *)
(*   and whether ts was ever Reset.  bySlot gives, per interval number,    *)
(*   the values added to ts while the clock was in it; it is kept only as  *)
(*   long as the clock has never been set back and ts never Reset.         *)
(*   dirty[t] tells whether another call has stored into c.count since     *)
(*   goroutine t loaded it.                                                *)
(*   frame, win, fpanic, fadds: a frame string, the timeseries that        *)
(*   newTimeseries built from it (<<>> before the call), the run-time      *)
(*   panic that stopped the program ("" while it runs) and the number of   *)
(*   Adds to win.                                                          *)
(*   mframes, mkind, mm: the frames and the kind that newMetric was        *)
(*   called with and the metric it returned; madds counts the Adds to it.  *)
(*   solo[i] is a timeseries built on its own from frame i that is given   *)
(*   the calls made on mm, at the same clock readings; mstr and sstr hold  *)
(*   the last String of mm and the strings of the solo timeseries then.    *)
(*   ring, heap, rnow, tsLock, bLock: a timeseries of gauges with its      *)
(*   pointers and locks.  heap[b] is sample object b, ring the slice       *)
(*   ts.samples of pointers to them, rnow is ts.now; tsLock and bLock[b]   *)
(*   give the goroutine that holds the timeseries' and object b's mutex,   *)
(*   0 when free.  Of goroutine t, rpc[t] is the position in its call,     *)
(*   rop[t] the method called, ri[t] a loop index, rk[t] the passes of     *)
(*   roll's loop still to do, rtmp[t] roll's tmp, rcur[t] the sample it    *)
(*   works on; rfull[t] tells that its roll reset all samples, visited[t]  *)
(*   is the set of samples its Reset has reset so far; rcalls counts the   *)
(*   calls.                                                                *)
(*   lastSnap holds the last MarshalJSON output and its clock reading      *)
(*   while no Add or Reset has followed it; pair compares the last two     *)
(*   outputs when no Add or Reset came between them.                       *)
(***************************************************************************)
VARIABLES m, obs, lastOp, preLen,
          c, pc, old, arg, acc, issued, calls, everReset, retried, dirty,
          ts, clock, bySlot, wadds, wentBack, wasReset, lastSnap, pair,
          frame, win, fpanic, fadds,
          mframes, mkind, mm, solo, mstr, sstr, madds,
          ring, heap, rnow, tsLock, bLock, rpc, rop, ri, rk, rtmp, rcur,
          rfull, visited, rcalls

mvars == <<m, obs, lastOp, preLen>>
cvars == <<c, pc, old, arg, acc, issued, calls, everReset, retried, dirty>>
wvars == <<ts, clock, bySlot, wadds, wentBack, wasReset, lastSnap, pair>>
fvars == <<frame, win, fpanic, fadds>>
nvars == <<mframes, mkind, mm, solo, mstr, sstr, madds>>
rvars == <<ring, heap, rnow, tsLock, bLock, rpc, rop, ri, rk, rtmp, rcur,
           rfull, visited, rcalls>>
xvars == <<fvars, nvars, rvars>>
vars == <<mvars, cvars, wvars, xvars>>

\* newMetric with no frames: the builder's metric.
BareMetric(kinds) ==
  /\ m \in {Builder(k) : k \in kinds}
  /\ obs = <<>>
  /\ lastOp = "new"
  /\ preLen = 0

\* A counter that no goroutine has touched yet.
SharedCounter ==
  /\ c = NewCounterValue
  /\ pc = [t \in Threads |-> "idle"]
  /\ old = [t \in Threads |-> 0]
  /\ arg = [t \in Threads |-> 0]
  /\ acc = 0
  /\ issued = 0
  /\ calls = 0
  /\ everReset = FALSE
  /\ retried = FALSE
  /\ dirty = [t \in Threads |-> FALSE]

NoAdds == [k \in 0 .. Slot(MaxTime) |-> <<>>]

\* newMetric with one frame: a timeseries; the clock stands at its start.
Timeseries(kinds) ==
  /\ ts \in {NewTimeseries(k) : k \in kinds}
  /\ clock = 0
  /\ bySlot = NoAdds
  /\ wadds = 0
  /\ wentBack = FALSE
  /\ wasReset = FALSE
  /\ lastSnap = <<>>
  /\ pair = <<>>

\* Metric.Add(n) on the bare metric.
Add(n) ==
  /\ Len(obs) < MaxObs
  /\ m' = MetricAdd(m, n)
  /\ obs' = Append(obs, n)
  /\ lastOp' = "add"
  /\ preLen' = Len(obs)
  /\ UNCHANGED <<cvars, wvars, xvars>>

\* Metric.Reset() on the bare metric.
Reset ==
  /\ m' = MetricReset(m)
  /\ obs' = <<>>
  /\ lastOp' = "reset"
  /\ preLen' = Len(obs)
  /\ UNCHANGED <<cvars, wvars, xvars>>

MNext == (\E n \in Values : Add(n)) \/ Reset

\* A frame string, before newTimeseries is called on it.
Unbuilt(frames) ==
  /\ frame \in frames
  /\ win = <<>>
  /\ fpanic = ""
  /\ fadds = 0

OneFrame == {<<"3", "s", "1", "s">>}

\* newMetric(builder, frames...) for a kind and frames among those given;
\* beside it, one timeseries per frame built on its own.
Built(kinds, framelists) ==
  /\ mkind \in kinds
  /\ mframes \in framelists
  /\ mm = NewMetric(mkind, mframes)
  /\ solo = [i \in DOMAIN mframes |-> NewTimeseriesOf(mkind, mframes[i])]
  /\ mstr = <<>>
  /\ sstr = <<>>
  /\ madds = 0

NoFrames == {<<>>}

\* The sample objects of the timeseries whose locks are modelled.
Samples == 1 .. NBuckets

\* newTimeseries for gauges, with no call on it yet.
Ring ==
  /\ ring = [i \in Samples |-> i]
  /\ heap = [b \in Samples |-> Builder("g")]
  /\ rnow = ZeroTime
  /\ tsLock = 0
  /\ bLock = [b \in Samples |-> 0]
  /\ rpc = [t \in Threads |-> "idle"]
  /\ rop = [t \in Threads |-> "none"]
  /\ ri = [t \in Threads |-> 0]
  /\ rk = [t \in Threads |-> 0]
  /\ rtmp = [t \in Threads |-> 0]
  /\ rcur = [t \in Threads |-> 0]
  /\ rfull = [t \in Threads |-> FALSE]
  /\ visited = [t \in Threads |-> {}]
  /\ rcalls = 0

MInit ==
  BareMetric(Kinds) /\ SharedCounter /\ Timeseries({"c"}) /\ Unbuilt(OneFrame)
  /\ Built({"c"}, NoFrames) /\ Ring

SpecMetric == MInit /\ [][MNext]_vars

(***************************************************************************)
(* counter.Add step by step, for goroutines that share one counter.        *)
(***************************************************************************)
\* A swap that does not compare.
SwapAlways(cur, o, n) == [ok |-> TRUE, val |-> n]

\* A compare-and-swap that fails whatever the stored value.
SwapNever(cur, o, n) == [ok |-> FALSE, val |-> cur]

\* atomic.CompareAndSwapUint64(&c.count, bits(o), bits(n)) on the current
\* value cur: whether it swapped, and the value afterwards.
CompareAndSwap(cur, o, n) ==
  [ok |-> cur = o, val |-> IF cur = o THEN n ELSE cur]

\* Ghost: a call (goroutine w, or 0 for a Reset) has stored into c.count;
\* every other goroutine that is between its load and its compare-and-swap
\* is marked.
Written(w) ==
  [t \in Threads |-> IF t # w /\ pc[t] = "cas" THEN TRUE ELSE dirty[t]]

\* A goroutine calls counter.Add(n).
CallAdd(t, n) ==
  /\ pc[t] = "idle"
  /\ calls < MaxCalls
  /\ pc' = [pc EXCEPT ![t] = "load"]
  /\ arg' = [arg EXCEPT ![t] = n]
  /\ issued' = issued + n
  /\ calls' = calls + 1
  /\ UNCHANGED <<c, old, acc, everReset, retried, dirty, mvars, wvars, xvars>>

\* old := math.Float64frombits(atomic.LoadUint64(&c.count))
Load(t) ==
  /\ pc[t] = "load"
  /\ old' = [old EXCEPT ![t] = c.count]
  /\ pc' = [pc EXCEPT ![t] = "cas"]
  /\ dirty' = [dirty EXCEPT ![t] = FALSE]
  /\ UNCHANGED <<c, arg, acc, issued, calls, everReset, retried, mvars, wvars, xvars>>

\* new := old + n; the compare-and-swap; return on success, loop otherwise.
Cas(t) ==
  /\ pc[t] = "cas"
  /\ LET r == CompareAndSwap(c.count, old[t], old[t] + arg[t])
     IN  /\ c' = [c EXCEPT !.count = r.val]
         /\ IF r.ok
            THEN /\ pc' = [pc EXCEPT ![t] = "idle"]
                 /\ acc' = acc + arg[t]
                 /\ arg' = [arg EXCEPT ![t] = 0]
                 /\ dirty' = Written(t)
                 /\ UNCHANGED retried
            ELSE /\ pc' = [pc EXCEPT ![t] = "load"]
                 /\ retried' = TRUE
                 /\ UNCHANGED <<acc, arg, dirty>>
  /\ old' = [old EXCEPT ![t] = 0]
  /\ UNCHANGED <<issued, calls, everReset, mvars, wvars, xvars>>

\* counter.Reset, from any goroutine, at any time.
CReset ==
  /\ c' = CounterReset(c)
  /\ acc' = 0
  /\ everReset' = TRUE
  /\ dirty' = Written(0)
  /\ UNCHANGED <<pc, old, arg, issued, calls, retried, mvars, wvars, xvars>>

CNext ==
  \/ \E t \in Threads : \E n \in Deltas : CallAdd(t, n)
  \/ \E t \in Threads : Load(t)
  \/ \E t \in Threads : Cas(t)
  \/ CReset

CInit ==
  BareMetric({"c"}) /\ SharedCounter /\ Timeseries({"c"}) /\ Unbuilt(OneFrame)
  /\ Built({"c"}, NoFrames) /\ Ring

SpecCounter == CInit /\ [][CNext]_vars

\* The scheduler runs every goroutine that can take a step: the loop of
\* counter.Add holds no lock and waits for nothing.
CFair == \A t \in Threads : WF_vars(Load(t) \/ Cas(t))

\* The same calls with deltas of one unit up or down only.
UnitDeltas == {-1, 1}

CFNext ==
  \/ \E t \in Threads : \E n \in UnitDeltas : CallAdd(t, n)
  \/ \E t \in Threads : Load(t)
  \/ \E t \in Threads : Cas(t)
  \/ CReset

SpecCounterFair == CInit /\ [][CFNext]_vars /\ CFair

AllIdle == \A t \in Threads : pc[t] = "idle"

(***************************************************************************)
(* The timeseries over time.  Add and MarshalJSON hold the timeseries'     *)
(* lock from the roll to their end, so each is one step.                    *)
(***************************************************************************)
\* now() moves to another reading, forward or back.
SetClock(t) ==
  /\ t # clock
  /\ clock' = t
  /\ wentBack' = (wentBack \/ t < clock)
  /\ bySlot' = IF t < clock THEN NoAdds ELSE bySlot
  /\ UNCHANGED <<ts, wadds, wasReset, lastSnap, pair, mvars, cvars, xvars>>

\* timeseries.Add(n)
TsAdd(n) ==
  /\ wadds < MaxWAdds
  /\ ts' = AddToFirst(Roll(ts, clock), n)
  /\ bySlot' = IF wentBack \/ wasReset THEN bySlot
               ELSE [bySlot EXCEPT ![Slot(clock)] = Append(@, n)]
  /\ wadds' = wadds + 1
  /\ lastSnap' = <<>>
  /\ pair' = <<>>
  /\ UNCHANGED <<clock, wentBack, wasReset, mvars, cvars, xvars>>

\* timeseries.MarshalJSON (and String)
TsMarshalJSON ==
  LET rolled == Roll(ts, clock)
      out == TimeseriesJSON(rolled)
  IN  /\ ts' = rolled
      /\ lastSnap' = <<[at |-> clock, out |-> out]>>
      /\ pair' = IF lastSnap = <<>> THEN <<>>
                 ELSE <<[t1 |-> lastSnap[1].at, t2 |-> clock,
                         same |-> (out = lastSnap[1].out),
                         still |-> (rolled.samples = ts.samples)]>>
      /\ UNCHANGED <<clock, bySlot, wadds, wentBack, wasReset, mvars, cvars, xvars>>

\* timeseries.Reset
TsReset ==
  /\ ts' = [ts EXCEPT !.samples = ResetAll(ts.samples)]
  /\ wasReset' = TRUE
  /\ bySlot' = NoAdds
  /\ lastSnap' = <<>>
  /\ pair' = <<>>
  /\ UNCHANGED <<clock, wadds, wentBack, mvars, cvars, xvars>>

WNext ==
  \/ \E t \in Times : SetClock(t)
  \/ \E n \in WValues : TsAdd(n)
  \/ TsMarshalJSON
  \/ TsReset

WInit ==
  BareMetric({"c"}) /\ SharedCounter /\ Timeseries(WKinds) /\ Unbuilt(OneFrame)
  /\ Built({"c"}, NoFrames) /\ Ring

SpecWindow == WInit /\ [][WNext]_vars

(***************************************************************************)
(* Helpers for the properties.                                             *)
(***************************************************************************)
RECURSIVE SeqSum(_)
SeqSum(s) == IF s = <<>> THEN 0 ELSE Head(s) + SeqSum(Tail(s))

Range(s) == {s[i] : i \in DOMAIN s}
SetMin(S) == CHOOSE x \in S : \A y \in S : x <= y
SetMax(S) == CHOOSE x \in S : \A y \in S : y <= x
Occurrences(s, v) == Cardinality({i \in DOMAIN s : s[i] = v})
CountLe(s, v) == Cardinality({i \in DOMAIN s : s[i] <= v})

RECURSIVE SumCounts(_)
SumCounts(bins) ==
  IF bins = <<>> THEN 0 ELSE Head(bins).count + SumCounts(Tail(bins))

\* The weight the bins give to value v.
WeightAt(bins, v) ==
  SumCounts(SelectSeq(bins, LAMBDA b : b.value = FInt(v)))

\* The exact nearest-rank value: the smallest observation v such that at
\* least q * Len(s) observations are <= v.
NearestRank(s, q) ==
  SetMin({v \in Range(s) : q[1] * Len(s) <= q[2] * CountLe(s, v)})

\* Ranks up to 1, ranks in (0, 1], and one rank above 1.
RankDen == 4
Ranks == {Frac(k, RankDen) : k \in (-1) .. RankDen} \cup {P50, P90, P99}
UnitRanks == {q \in Ranks : q[1] > 0}
AllRanks == Ranks \cup {Frac(RankDen + 2, RankDen)}

(***************************************************************************)
(* Properties of the bare metrics, under SpecMetric.                       *)
(***************************************************************************)

\* C6: histogram mass conservation and bin cap.  Between operations the bin
\* weights sum to total, total is the number of Adds since the last Reset,
\* and there are at most maxBins bins.
C6_MassAndCap ==
  m.type = "h" =>
    /\ SumCounts(m.bins) = m.total
    /\ m.total = Len(obs)
    /\ Len(m.bins) <= maxBins

\* C6 witness: a histogram that has been compacted (more Adds than bins) and
\* holds a merged bin.
C6_Witness ==
  /\ m.type = "h"
  /\ Len(obs) > maxBins
  /\ Len(m.bins) = maxBins
  /\ \E i \in DOMAIN m.bins : m.bins[i].count >= 2

\* C7: gauge statistics.  count is the number of Adds since the last Reset,
\* sum their sum, min and max the smallest and largest of them, the
\* snapshot's mean lies between min and max, and with no Adds the snapshot
\* is all zero.
C7_GaugeStats ==
  m.type = "g" =>
    /\ m.count = Len(obs)
    /\ m.sum = SeqSum(obs)
    /\ obs # <<>> =>
         /\ m.min = SetMin(Range(obs))
         /\ m.max = SetMax(Range(obs))
         /\ GaugeJSON(m).min = m.min
         /\ GaugeJSON(m).max = m.max
         /\ GaugeJSON(m).mean[2] * m.sum = GaugeJSON(m).mean[1] * m.count
         /\ FLe(FInt(GaugeJSON(m).min), GaugeJSON(m).mean)
         /\ FLe(GaugeJSON(m).mean, FInt(GaugeJSON(m).max))
    /\ obs = <<>> =>
         GaugeJSON(m) = [type |-> "g", mean |-> FInt(0), min |-> 0, max |-> 0]

\* C7 witness: a gauge that was given only positive values, not all equal
\* (min is not stuck at 0).
C7_Witness ==
  /\ m.type = "g"
  /\ Len(obs) >= 2
  /\ \A i \in DOMAIN obs : obs[i] > 0
  /\ m.min > 0
  /\ m.min < m.max

\* C8 as stated: quantile is monotonic for any q1 <= q2.
C8_MonotonicAnyRank ==
  m.type = "h" =>
    \A q1 \in AllRanks : \A q2 \in AllRanks :
      FLe(q1, q2) => FLe(Quantile(m, q1), Quantile(m, q2))

\* C8 amended: quantile is monotonic for q1 <= q2 <= 1.
C8_MonotonicUpToOne ==
  m.type = "h" =>
    \A q1 \in Ranks : \A q2 \in Ranks :
      FLe(q1, q2) => FLe(Quantile(m, q1), Quantile(m, q2))

\* C8 witness: a compacted histogram with negative values whose quantiles at
\* two ranks differ.
C8_Witness ==
  /\ m.type = "h"
  /\ Len(obs) > maxBins
  /\ \E i \in DOMAIN obs : obs[i] < 0
  /\ FLt(Quantile(m, P50), Quantile(m, P99))

\* C9: histogram exactness under the cap.  While the number of distinct
\* values added since the last Reset is at most maxBins, every bin carries an
\* added value with exactly the weight of its occurrences, and quantile(q)
\* for 0 < q <= 1 is the exact nearest-rank value; an empty histogram gives 0
\* for every rank.
C9_ExactUnderCap ==
  m.type = "h" =>
    /\ (obs # <<>> /\ Cardinality(Range(obs)) <= maxBins) =>
         /\ \A i \in DOMAIN m.bins :
              \E v \in Range(obs) : m.bins[i].value = FInt(v)
         /\ \A v \in Range(obs) : WeightAt(m.bins, v) = Occurrences(obs, v)
         /\ \A q \in UnitRanks :
              Quantile(m, q) = FInt(NearestRank(obs, q))
    /\ obs = <<>> => \A q \in AllRanks : Quantile(m, q) = FInt(0)

\* C9 witness: more Adds than the cap, of at most maxBins distinct values and
\* more than one, so that trim ran and the quantiles differ.
C9_Witness ==
  /\ m.type = "h"
  /\ Len(obs) > maxBins
  /\ Cardinality(Range(obs)) <= maxBins
  /\ Cardinality(Range(obs)) >= 2
  /\ \E i \in DOMAIN m.bins : m.bins[i].count >= 2
  /\ Quantile(m, P50) # Quantile(m, P99)

\* C10: Reset returns a metric to its fresh state: right after Reset the
\* metric equals a newly built one of its kind, so does its snapshot and its
\* response to any Add, and a second Reset changes nothing.
C10_ResetIsFresh ==
  lastOp = "reset" =>
    /\ m = Builder(m.type)
    /\ MetricJSON(m) = MetricJSON(Builder(m.type))
    /\ \A n \in Values : MetricAdd(m, n) = MetricAdd(Builder(m.type), n)
    /\ MetricReset(m) = m

\* C10 witness: a Reset of a gauge that held two or more observations.
C10_Witness ==
  /\ lastOp = "reset"
  /\ preLen >= 2
  /\ m.type = "g"

(***************************************************************************)
(* Properties of the concurrent counter, under SpecCounter.                *)
(***************************************************************************)

\* C1: counter accumulation is lossless under concurrency.  The value is
\* always the sum of the deltas of the Adds that have returned since the last
\* Reset, and once every call on a counter that was never Reset has returned
\* it is the sum of the deltas of all the calls.
C1_Lossless ==
  /\ c.count = acc
  /\ (AllIdle /\ ~everReset) => c.count = issued

\* C1 witness: MaxCalls Adds have all returned on a counter never Reset, and
\* one of them lost a race and retried.
C1_Witness ==
  /\ AllIdle
  /\ calls = MaxCalls
  /\ ~everReset
  /\ retried
  /\ c.count = issued

\* C14: counter.Add is non-blocking and terminates.  Under weak fairness of
\* every goroutine's steps, every Add that was called returns (whenever an
\* Add is under way, a state follows in which all Adds made have returned,
\* whatever Resets come in between); and a
\* compare-and-swap fails only when the stored value differs from the value
\* the goroutine loaded and another call (an Add's successful swap, or a
\* Reset) has stored into the counter since that load.
C14_AddTerminates ==
  /\ (\E t \in Threads : pc[t] # "idle") ~> AllIdle
  /\ [][\A t \in Threads :
          (pc[t] = "cas" /\ pc'[t] = "load") =>
            (dirty[t] /\ c.count # old[t])]_vars

\* C14 witness: a goroutine is back at its load after a failed
\* compare-and-swap, the other one having stored in between, with all calls
\* issued and a Reset among them.
C14_Witness ==
  /\ \E t \in Threads : pc[t] = "load" /\ dirty[t]
  /\ retried
  /\ calls = MaxCalls
  /\ everReset

(***************************************************************************)
(* Properties of the timeseries, under SpecWindow.                         *)
(***************************************************************************)
\* The sample that holds exactly the values vals, for each kind.
SampleOf(kind, vals) ==
  IF kind = "c" THEN [type |-> "c", count |-> SeqSum(vals)]
  ELSE IF vals = <<>> THEN NewGaugeValue
  ELSE [type |-> "g", sum |-> SeqSum(vals), min |-> SetMin(Range(vals)),
        max |-> SetMax(Range(vals)), count |-> Len(vals)]

\* The values added while the clock was in interval number k.
AddedIn(k) == IF k \in DOMAIN bySlot THEN bySlot[k] ELSE <<>>

\* C2: per-interval attribution.  With a clock that never went back and no
\* Reset, after any Adds and snapshots there are NBuckets samples and sample
\* i (from 0) holds exactly the values added while the clock was in interval
\* Slot(now) - i; what was added NBuckets or more intervals ago is in no
\* sample.
C2_Attribution ==
  (~wentBack /\ ~wasReset) =>
    /\ Len(ts.samples) = NBuckets
    /\ \A i \in 1 .. NBuckets :
         ts.samples[i] =
           IF ts.now = ZeroTime THEN Builder(ts.samples[i].type)
           ELSE SampleOf(ts.samples[i].type, AddedIn(Slot(ts.now) - (i - 1)))

\* C2 witness: the clock only moved forward, the oldest sample holds a value
\* and a value added before the window is gone.
C2_Witness ==
  /\ ~wentBack /\ ~wasReset
  /\ ts.now # ZeroTime
  /\ ts.samples[NBuckets] # Builder(ts.samples[NBuckets].type)
  /\ \E k \in DOMAIN bySlot :
       k <= Slot(ts.now) - NBuckets /\ bySlot[k] # <<>>

\* C3: every MarshalJSON output of the timeseries has, next to the samples,
\* a total that merges all samples: for counters, the sum of their counts.
C3_SnapshotHasTotal ==
  lastSnap # <<>> =>
    LET out == lastSnap[1].out
    IN  /\ "total" \in DOMAIN out
        /\ out.samples[1].type = "c" =>
             out.total =
               [type |-> "c",
                count |-> SeqSum([i \in DOMAIN out.samples |->
                                    out.samples[i].count])]

\* C4: snapshot idempotence at one instant.  Two MarshalJSON calls at the
\* same clock reading with no Add or Reset between them give the same output,
\* and the second leaves every sample where and as it was.
C4_SameInstant ==
  (pair # <<>> /\ pair[1].t1 = pair[1].t2) =>
    (pair[1].same /\ pair[1].still)

\* C4 witness: two such calls on a timeseries that holds a value in a sample
\* other than the first.
C4_Witness ==
  /\ pair # <<>>
  /\ pair[1].t1 = pair[1].t2
  /\ \E i \in 2 .. NBuckets : ts.samples[i] # Builder(ts.samples[i].type)

\* C5 as stated: two MarshalJSON calls at t1 <= t2 in the same slot
\* [k*interval, (k+1)*interval), with no Add or Reset between them, give the
\* same output.
C5_SameFloorSlot ==
  (/\ pair # <<>>
   /\ pair[1].t1 <= pair[1].t2
   /\ pair[1].t1 \div Interval = pair[1].t2 \div Interval) =>
    pair[1].same

\* t1 and t2 lie in the same slot [(k - 1/2)*interval, (k + 1/2)*interval).
SameRoundedSlot(t1, t2) ==
  (2 * t1 + Interval) \div (2 * Interval) =
    (2 * t2 + Interval) \div (2 * Interval)

\* C5 amended: two MarshalJSON calls at t1 <= t2 that round to the same
\* multiple of the interval, with no Add or Reset between them, give the same
\* output.
C5_SameRoundedSlot ==
  (/\ pair # <<>>
   /\ pair[1].t1 <= pair[1].t2
   /\ SameRoundedSlot(pair[1].t1, pair[1].t2)) =>
    (pair[1].same /\ pair[1].still)

\* C5 witness: two such calls at different readings, on either side of a
\* multiple of the interval, on a timeseries that holds a value.
C5_Witness ==
  /\ pair # <<>>
  /\ pair[1].t1 < pair[1].t2
  /\ SameRoundedSlot(pair[1].t1, pair[1].t2)
  /\ pair[1].t1 \div Interval # pair[1].t2 \div Interval
  /\ \E i \in 1 .. NBuckets : ts.samples[i] # Builder(ts.samples[i].type)

(***************************************************************************)
(* SpecFrame: newTimeseries on a frame string, then Adds and snapshots of  *)
(* the timeseries it returned.  A run-time panic stops the program.        *)
(***************************************************************************)
\* newTimeseries(builder, frame): make panics on a negative length.
NewOf(kind) ==
  /\ win = <<>>
  /\ fpanic = ""
  /\ IF FrameSamples(frame) < 0
     THEN /\ fpanic' = "makeslice: len out of range"
          /\ win' = win
     ELSE /\ win' = <<NewTimeseriesOf(kind, frame)>>
          /\ fpanic' = fpanic
  /\ UNCHANGED <<frame, fadds, mvars, cvars, wvars, nvars, rvars>>

\* timeseries.Add(n) on the timeseries built from the frame: after the roll,
\* ts.samples[0] panics when there is no sample.
FrameAdd(n) ==
  /\ win # <<>>
  /\ fpanic = ""
  /\ fadds < MaxFAdds
  /\ fadds' = fadds + 1
  /\ IF Len(win[1].samples) = 0
     THEN /\ fpanic' = "index out of range [0] with length 0"
          /\ win' = <<Roll(win[1], clock)>>
     ELSE /\ win' = <<AddToFirst(Roll(win[1], clock), n)>>
          /\ fpanic' = fpanic
  /\ UNCHANGED <<frame, mvars, cvars, wvars, nvars, rvars>>

\* timeseries.MarshalJSON (and String) on the timeseries built from the
\* frame.
FrameMarshalJSON ==
  /\ win # <<>>
  /\ fpanic = ""
  /\ win' = <<Roll(win[1], clock)>>
  /\ UNCHANGED <<frame, fpanic, fadds, mvars, cvars, wvars, nvars, rvars>>

FNext ==
  \/ \E kind \in WKinds : NewOf(kind)
  \/ \E n \in WValues : FrameAdd(n)
  \/ FrameMarshalJSON
  \/ \E t \in Times : SetClock(t)

FInit ==
  BareMetric({"c"}) /\ SharedCounter /\ Timeseries({"c"}) /\ Unbuilt(Frames)
  /\ Built({"c"}, NoFrames) /\ Ring

SpecFrame == FInit /\ [][FNext]_vars

(***************************************************************************)
(* SpecMulti: a metric built by newMetric from zero, one or several        *)
(* frames, with Add, Reset and String called on it while the clock moves.  *)
(***************************************************************************)
\* The lists of frames newMetric is called with.
FrameLists ==
  { <<>>,
    << <<"3", "s", "1", "s">> >>,
    << <<"3", "s", "1", "s">>, <<"4", "s", "2", "s">> >>,
    << <<"4", "s", "2", "s">>, <<"3", "s", "1", "s">> >>,
    << <<"1", "0", "s", "1", "s">>, <<"3", "0", "s", "5", "s">> >>,
    << <<"3", "s", "1", "s">>, <<"4", "s", "2", "s">>,
       <<"6", "s", "3", "s">> >> }

\* Add(n) on the metric: the bare metric's, timeseries.Add or
\* multimetric.Add.
MAdd(n) ==
  /\ madds < MaxMAdds
  /\ madds' = madds + 1
  /\ mm' = IF Len(mframes) = 0 THEN MetricAdd(mm, n)
           ELSE IF Len(mframes) = 1 THEN AddToFirst(Roll(mm, clock), n)
           ELSE MultiAdd(mm, 1, clock, n)
  /\ solo' = [i \in DOMAIN solo |-> AddToFirst(Roll(solo[i], clock), n)]
  /\ mstr' = <<>>
  /\ sstr' = <<>>
  /\ UNCHANGED <<mframes, mkind, mvars, cvars, wvars, fvars, rvars>>

\* Reset on the metric.
MReset ==
  /\ mm' = IF Len(mframes) = 0 THEN MetricReset(mm)
           ELSE IF Len(mframes) = 1
                THEN [mm EXCEPT !.samples = ResetAll(mm.samples)]
           ELSE MultiReset(mm, 1)
  /\ solo' = [i \in DOMAIN solo |->
                [solo[i] EXCEPT !.samples = ResetAll(solo[i].samples)]]
  /\ mstr' = <<>>
  /\ sstr' = <<>>
  /\ UNCHANGED <<mframes, mkind, madds, mvars, cvars, wvars, fvars, rvars>>

\* String on the metric; the String of a timeseries rolls it.
MString ==
  /\ mm' = IF Len(mframes) = 0 THEN mm
           ELSE IF Len(mframes) = 1 THEN Roll(mm, clock)
           ELSE MultiRoll(mm, 1, clock)
  /\ mstr' = IF Len(mframes) = 0 THEN <<MetricJSON(mm)>>
             ELSE IF Len(mframes) = 1
                  THEN <<TimeseriesJSON(Roll(mm, clock))>>
             ELSE <<MultiString(MultiRoll(mm, 1, clock))>>
  /\ solo' = [i \in DOMAIN solo |-> Roll(solo[i], clock)]
  /\ sstr' = [i \in DOMAIN solo |-> TimeseriesJSON(Roll(solo[i], clock))]
  /\ UNCHANGED <<mframes, mkind, madds, mvars, cvars, wvars, fvars, rvars>>

\* Time passes.
Advance(t) == t > clock /\ SetClock(t)

NNext ==
  \/ \E n \in WValues : MAdd(n)
  \/ MReset
  \/ MString
  \/ \E t \in Times : Advance(t)

NInit ==
  BareMetric({"c"}) /\ SharedCounter /\ Timeseries({"c"}) /\ Unbuilt(OneFrame)
  /\ Built(WKinds, FrameLists) /\ Ring

SpecMulti == NInit /\ [][NNext]_vars

(***************************************************************************)
(* SpecRing: goroutines call Add, MarshalJSON and Reset on one timeseries  *)
(* of gauges.  Every lock and unlock of a mutex, and every read and write  *)
(* of an element of ts.samples, is a step of its own.                      *)
(***************************************************************************)
\* A mutex that stays locked.
MutexKept(holder) == holder

\* sync.Mutex.Unlock by its holder: the mutex is free.
MutexUnlock(holder) == 0

\* A pass of roll's loop that loses tmp.
LoseFront(r, tmp) == r

\* ts.samples[0] = tmp, line 70.
PutFront(r, tmp) == [r EXCEPT ![1] = tmp]

\* ts.samples[j] = ts.samples[j-1], line 68, with j counted from 1.
ShiftOne(r, j) == [r EXCEPT ![j] = r[j - 1]]

\* The clock readings that the rolls of this timeseries get: the starts of
\* the intervals.
Readings == {t \in Times : t % Interval = 0}

\* Where Add and MarshalJSON go on after the roll.
AfterRoll(t) == IF rop[t] = "add" THEN "add_lock" ELSE "json_lock"

\* A goroutine calls Add(1), MarshalJSON or Reset.  Reset starts at its
\* loop over ts.samples; the other two at ts.Lock().
RCall(t, op) ==
  /\ rpc[t] = "idle"
  /\ rcalls < MaxRCalls
  /\ rcalls' = rcalls + 1
  /\ rop' = [rop EXCEPT ![t] = op]
  /\ rpc' = [rpc EXCEPT ![t] = IF op = "reset" THEN "res_read" ELSE "lock"]
  /\ ri' = [ri EXCEPT ![t] = IF op = "reset" THEN 1 ELSE 0]
  /\ rfull' = [rfull EXCEPT ![t] = FALSE]
  /\ visited' = [visited EXCEPT ![t] = {}]
  /\ UNCHANGED <<ring, heap, rnow, tsLock, bLock, rk, rtmp, rcur>>
  /\ UNCHANGED <<mvars, cvars, wvars, fvars, nvars>>

\* ts.Lock(), lines 77 and 84: waits until the mutex is free.
RLock(t) ==
  /\ rpc[t] = "lock"
  /\ tsLock = 0
  /\ tsLock' = t
  /\ rpc' = [rpc EXCEPT ![t] = "roll"]
  /\ UNCHANGED <<ring, heap, rnow, bLock, rop, ri, rk, rtmp, rcur, rfull,
                 visited, rcalls>>
  /\ UNCHANGED <<mvars, cvars, wvars, fvars, nvars>>

\* roll, lines 55-64: now() reads the clock, which has not gone back since
\* it was last read; then the count of intervals, ts.now = t, and the
\* branch.
RRoll(t, reading) ==
  /\ rpc[t] = "roll"
  /\ reading >= clock
  /\ clock' = reading
  /\ LET roll == Ticks([now |-> rnow, interval |-> Interval], reading)
     IN  /\ rnow' = reading
         /\ IF roll <= 0
            THEN /\ rpc' = [rpc EXCEPT ![t] = AfterRoll(t)]
                 /\ ri' = [ri EXCEPT ![t] = 1]
                 /\ UNCHANGED <<rk, rfull>>
            ELSE IF roll >= Len(ring)
            THEN /\ rpc' = [rpc EXCEPT ![t] = "all_lock"]
                 /\ ri' = [ri EXCEPT ![t] = 1]
                 /\ rfull' = [rfull EXCEPT ![t] = TRUE]
                 /\ UNCHANGED rk
            ELSE /\ rpc' = [rpc EXCEPT ![t] = "rot_tmp"]
                 /\ rk' = [rk EXCEPT ![t] = roll]
                 /\ UNCHANGED <<ri, rfull>>
  /\ UNCHANGED <<ring, heap, tsLock, bLock, rop, rtmp, rcur, visited, rcalls>>
  /\ UNCHANGED <<ts, bySlot, wadds, wentBack, wasReset, lastSnap, pair>>
  /\ UNCHANGED <<mvars, cvars, fvars, nvars>>

\* The Lock() of a sample's method: roll's ts.Reset() (sample ri), roll's
\* samples[0].Reset(), Add's samples[0].Add(n), json.Marshal's call of
\* sample ri's MarshalJSON.  It waits until the sample's mutex is free.
RSampleLock(t) ==
  /\ rpc[t] \in {"all_lock", "rot_lock", "add_lock", "json_lock"}
  /\ LET b == IF rpc[t] \in {"rot_lock", "add_lock"} THEN ring[1]
              ELSE ring[ri[t]]
     IN  /\ bLock[b] = 0
         /\ bLock' = [bLock EXCEPT ![b] = t]
         /\ rcur' = [rcur EXCEPT ![t] = b]
  /\ rpc' = [rpc EXCEPT ![t] =
               CASE rpc[t] = "all_lock" -> "all_do"
                 [] rpc[t] = "rot_lock" -> "rot_do"
                 [] rpc[t] = "add_lock" -> "add_do"
                 [] rpc[t] = "json_lock" -> "json_do"]
  /\ UNCHANGED <<ring, heap, rnow, tsLock, rop, ri, rk, rtmp, rfull, visited,
                 rcalls>>
  /\ UNCHANGED <<mvars, cvars, wvars, fvars, nvars>>

\* ts.Reset() inside roll, lines 62-63: the sample is reset and unlocked;
\* then the next sample, or the end of roll.
RAllDo(t) ==
  /\ rpc[t] = "all_do"
  /\ heap' = [heap EXCEPT ![rcur[t]] = MetricReset(@)]
  /\ bLock' = [bLock EXCEPT ![rcur[t]] = MutexUnlock(@)]
  /\ rcur' = [rcur EXCEPT ![t] = 0]
  /\ IF ri[t] < Len(ring)
     THEN /\ ri' = [ri EXCEPT ![t] = @ + 1]
          /\ rpc' = [rpc EXCEPT ![t] = "all_lock"]
     ELSE /\ ri' = [ri EXCEPT ![t] = 1]
          /\ rpc' = [rpc EXCEPT ![t] = AfterRoll(t)]
  /\ UNCHANGED <<ring, rnow, tsLock, rop, rk, rtmp, rfull, visited, rcalls>>
  /\ UNCHANGED <<mvars, cvars, wvars, fvars, nvars>>

\* tmp := ts.samples[n-1], line 66.
RRotTmp(t) ==
  /\ rpc[t] = "rot_tmp"
  /\ rtmp' = [rtmp EXCEPT ![t] = ring[Len(ring)]]
  /\ ri' = [ri EXCEPT ![t] = Len(ring)]
  /\ rpc' = [rpc EXCEPT ![t] = IF Len(ring) > 1 THEN "rot_shift"
                               ELSE "rot_front"]
  /\ UNCHANGED <<ring, heap, rnow, tsLock, bLock, rop, rk, rcur, rfull,
                 visited, rcalls>>
  /\ UNCHANGED <<mvars, cvars, wvars, fvars, nvars>>

\* One pass of the loop of lines 67-69.
RRotShift(t) ==
  /\ rpc[t] = "rot_shift"
  /\ ring' = ShiftOne(ring, ri[t])
  /\ ri' = [ri EXCEPT ![t] = @ - 1]
  /\ rpc' = [rpc EXCEPT ![t] = IF ri[t] > 2 THEN "rot_shift" ELSE "rot_front"]
  /\ UNCHANGED <<heap, rnow, tsLock, bLock, rop, rk, rtmp, rcur, rfull,
                 visited, rcalls>>
  /\ UNCHANGED <<mvars, cvars, wvars, fvars, nvars>>

\* ts.samples[0] = tmp, line 70.
RRotFront(t) ==
  /\ rpc[t] = "rot_front"
  /\ ring' = PutFront(ring, rtmp[t])
  /\ rtmp' = [rtmp EXCEPT ![t] = 0]
  /\ ri' = [ri EXCEPT ![t] = 0]
  /\ rpc' = [rpc EXCEPT ![t] = "rot_lock"]
  /\ UNCHANGED <<heap, rnow, tsLock, bLock, rop, rk, rcur, rfull, visited,
                 rcalls>>
  /\ UNCHANGED <<mvars, cvars, wvars, fvars, nvars>>

\* ts.samples[0].Reset(), line 71: the sample is reset and unlocked; then
\* the next pass, or the end of roll.
RRotDo(t) ==
  /\ rpc[t] = "rot_do"
  /\ heap' = [heap EXCEPT ![rcur[t]] = MetricReset(@)]
  /\ bLock' = [bLock EXCEPT ![rcur[t]] = MutexUnlock(@)]
  /\ rcur' = [rcur EXCEPT ![t] = 0]
  /\ rk' = [rk EXCEPT ![t] = @ - 1]
  /\ IF rk[t] > 1
     THEN /\ rpc' = [rpc EXCEPT ![t] = "rot_tmp"]
          /\ UNCHANGED ri
     ELSE /\ rpc' = [rpc EXCEPT ![t] = AfterRoll(t)]
          /\ ri' = [ri EXCEPT ![t] = 1]
  /\ UNCHANGED <<ring, rnow, tsLock, rop, rtmp, rfull, visited, rcalls>>
  /\ UNCHANGED <<mvars, cvars, wvars, fvars, nvars>>

\* ts.samples[0].Add(n), line 80: the value is added and the sample
\* unlocked.
RAddDo(t) ==
  /\ rpc[t] = "add_do"
  /\ heap' = [heap EXCEPT ![rcur[t]] = MetricAdd(@, 1)]
  /\ bLock' = [bLock EXCEPT ![rcur[t]] = MutexUnlock(@)]
  /\ rcur' = [rcur EXCEPT ![t] = 0]
  /\ ri' = [ri EXCEPT ![t] = 0]
  /\ rpc' = [rpc EXCEPT ![t] = "unlock"]
  /\ UNCHANGED <<ring, rnow, tsLock, rop, rk, rtmp, rfull, visited, rcalls>>
  /\ UNCHANGED <<mvars, cvars, wvars, fvars, nvars>>

\* json.Marshal, line 87: the sample is read and unlocked; then the next
\* sample, or the end.
RJsonDo(t) ==
  /\ rpc[t] = "json_do"
  /\ bLock' = [bLock EXCEPT ![rcur[t]] = MutexUnlock(@)]
  /\ rcur' = [rcur EXCEPT ![t] = 0]
  /\ IF ri[t] < Len(ring)
     THEN /\ ri' = [ri EXCEPT ![t] = @ + 1]
          /\ rpc' = [rpc EXCEPT ![t] = "json_lock"]
     ELSE /\ ri' = [ri EXCEPT ![t] = 0]
          /\ rpc' = [rpc EXCEPT ![t] = "unlock"]
  /\ UNCHANGED <<ring, heap, rnow, tsLock, rop, rk, rtmp, rfull, visited,
                 rcalls>>
  /\ UNCHANGED <<mvars, cvars, wvars, fvars, nvars>>

\* The deferred ts.Unlock(), lines 78 and 85, and the return.
RUnlock(t) ==
  /\ rpc[t] = "unlock"
  /\ tsLock' = MutexUnlock(tsLock)
  /\ rpc' = [rpc EXCEPT ![t] = "idle"]
  /\ rop' = [rop EXCEPT ![t] = "none"]
  /\ rfull' = [rfull EXCEPT ![t] = FALSE]
  /\ UNCHANGED <<ring, heap, rnow, bLock, ri, rk, rtmp, rcur, visited, rcalls>>
  /\ UNCHANGED <<mvars, cvars, wvars, fvars, nvars>>

\* timeseries.Reset, line 49: the range loop reads element ri of
\* ts.samples, with no lock held.
RResRead(t) ==
  /\ rpc[t] = "res_read"
  /\ rcur' = [rcur EXCEPT ![t] = ring[ri[t]]]
  /\ rpc' = [rpc EXCEPT ![t] = "res_lock"]
  /\ UNCHANGED <<ring, heap, rnow, tsLock, bLock, rop, ri, rk, rtmp, rfull,
                 visited, rcalls>>
  /\ UNCHANGED <<mvars, cvars, wvars, fvars, nvars>>

\* s.Reset(), line 50: the Lock() of the sample's mutex.
RResLock(t) ==
  /\ rpc[t] = "res_lock"
  /\ bLock[rcur[t]] = 0
  /\ bLock' = [bLock EXCEPT ![rcur[t]] = t]
  /\ rpc' = [rpc EXCEPT ![t] = "res_do"]
  /\ UNCHANGED <<ring, heap, rnow, tsLock, rop, ri, rk, rtmp, rcur, rfull,
                 visited, rcalls>>
  /\ UNCHANGED <<mvars, cvars, wvars, fvars, nvars>>

\* s.Reset(), line 50: the sample is reset and unlocked; then the next
\* element, or the return.
RResDo(t) ==
  /\ rpc[t] = "res_do"
  /\ heap' = [heap EXCEPT ![rcur[t]] = MetricReset(@)]
  /\ bLock' = [bLock EXCEPT ![rcur[t]] = MutexUnlock(@)]
  /\ rcur' = [rcur EXCEPT ![t] = 0]
  /\ IF ri[t] < Len(ring)
     THEN /\ ri' = [ri EXCEPT ![t] = @ + 1]
          /\ rpc' = [rpc EXCEPT ![t] = "res_read"]
          /\ visited' = [visited EXCEPT ![t] = @ \cup {rcur[t]}]
          /\ UNCHANGED rop
     ELSE /\ ri' = [ri EXCEPT ![t] = 0]
          /\ rpc' = [rpc EXCEPT ![t] = "idle"]
          /\ visited' = [visited EXCEPT ![t] = {}]
          /\ rop' = [rop EXCEPT ![t] = "none"]
  /\ UNCHANGED <<ring, rnow, tsLock, rk, rtmp, rfull, rcalls>>
  /\ UNCHANGED <<mvars, cvars, wvars, fvars, nvars>>

\* The steps of goroutine t inside a call.
RStep(t) ==
  \/ RLock(t) \/ (\E reading \in Readings : RRoll(t, reading))
  \/ RSampleLock(t) \/ RAllDo(t)
  \/ RRotTmp(t) \/ RRotShift(t) \/ RRotFront(t) \/ RRotDo(t)
  \/ RAddDo(t) \/ RJsonDo(t) \/ RUnlock(t)
  \/ RResRead(t) \/ RResLock(t) \/ RResDo(t)

RNext ==
  \/ \E t \in Threads : \E op \in {"add", "json", "reset"} : RCall(t, op)
  \/ \E t \in Threads : RStep(t)

RInit ==
  BareMetric({"c"}) /\ SharedCounter /\ Timeseries({"c"}) /\ Unbuilt(OneFrame)
  /\ Built({"c"}, NoFrames) /\ Ring

SpecRing == RInit /\ [][RNext]_vars

\* The scheduler runs every goroutine again and again; sync.Mutex hands a
\* free mutex to a goroutine that waits for it.
RFair == \A t \in Threads : WF_vars(RStep(t))

SpecRingFair == RInit /\ [][RNext]_vars /\ RFair

(***************************************************************************)
(* More properties of the histogram, under SpecMetric.                     *)
(***************************************************************************)

\* C18: histogram bins are unique by value: in every state the bin list is
\* strictly increasing by value (an Add of a value already present adds 1 to
\* that bin's weight and inserts nothing).
C18_UniqueBins ==
  m.type = "h" =>
    \A i \in 1 .. Len(m.bins) - 1 :
      FLt(m.bins[i].value, m.bins[i + 1].value)

\* The gap between bins k and k + 1.
GapAt(bins, k) == FSub(bins[k + 1].value, bins[k].value)

\* The first bin of the adjacent pair with the smallest gap, the lowest such
\* pair on ties.
SmallestGapPair(bins) ==
  CHOOSE k \in 1 .. Len(bins) - 1 :
    /\ \A l \in 1 .. Len(bins) - 1 : FLe(GapAt(bins, k), GapAt(bins, l))
    /\ \A l \in 1 .. k - 1 : FLt(GapAt(bins, k), GapAt(bins, l))

\* C19: the compaction step.  For every Add that takes the bins over the cap,
\* one step of trim replaces exactly the adjacent pair with the smallest gap
\* (the lowest pair on ties) by one bin with the sum of the two weights and
\* their weight-weighted average value, which lies between the two values;
\* the other bins are untouched, the list stays sorted, and trim ends with
\* maxBins bins.
C19_CompactionStep ==
  m.type = "h" =>
    \A n \in Values :
      LET b == InsertBin(m.bins, n)
          k == SmallestGapPair(b)
          r == TrimStep(b)
      IN  Len(b) > maxBins =>
            /\ Len(r) = Len(b) - 1
            /\ \A l \in 1 .. k - 1 : r[l] = b[l]
            /\ \A l \in k + 1 .. Len(r) : r[l] = b[l + 1]
            /\ r[k].count = b[k].count + b[k + 1].count
            /\ r[k].value[1] * (b[k].value[2] * b[k + 1].value[2] * r[k].count) =
                 r[k].value[2] *
                   (b[k].value[1] * b[k].count * b[k + 1].value[2]
                    + b[k + 1].value[1] * b[k + 1].count * b[k].value[2])
            /\ FLe(b[k].value, r[k].value) /\ FLe(r[k].value, b[k + 1].value)
            /\ \A l \in 1 .. Len(r) - 1 : FLe(r[l].value, r[l + 1].value)
            /\ Len(Trim(b)) = maxBins
            /\ HistogramAdd(m, n).bins = r

\* C19 witness: a full histogram, already compacted, with bins of different
\* weights and the same smallest gap at two pairs.
C19_Witness ==
  /\ m.type = "h"
  /\ Len(m.bins) = maxBins
  /\ Len(obs) > maxBins
  /\ \E i \in DOMAIN m.bins : \E j \in DOMAIN m.bins :
       m.bins[i].count # m.bins[j].count
  /\ \E n \in Values :
       LET b == InsertBin(m.bins, n)
       IN  \E k \in 1 .. Len(b) - 1 : \E l \in 1 .. Len(b) - 1 :
             /\ k # l
             /\ GapAt(b, k) = GapAt(b, l)
             /\ \A j \in 1 .. Len(b) - 1 : FLe(GapAt(b, k), GapAt(b, j))

\* C17: a roll with ticks <= 0 is a no-op.  When a MarshalJSON follows
\* another (which set the anchor ts.now to its reading t1) at a reading t2
\* that is not in a later interval, nothing is rotated or reset and ts.now is
\* still t1, so that a later return of the clock to t1 rotates nothing.
C17_NoOpRoll ==
  (pair # <<>> /\ Slot(pair[1].t2) <= Slot(pair[1].t1)) =>
    (pair[1].still /\ ts.now = pair[1].t1)

(***************************************************************************)
(* Properties of newTimeseries, under SpecFrame.                           *)
(***************************************************************************)
Max(a, b) == IF a < b THEN b ELSE a

\* C11: construction never fails.  For every frame string there is no panic,
\* neither in newTimeseries nor in a later Add or snapshot, and the
\* timeseries built has max(1, total / interval) samples.
C11_NeverFails ==
  /\ fpanic = ""
  /\ win # <<>> =>
       Len(win[1].samples) =
         Max(1, Quo(FrameTotal(frame), FrameInterval(frame)))

\* The unit table as documented: a month is 30 days, a year 365 days.
DocumentedUnit(ch) ==
  CASE ch = "s" -> 1
    [] ch = "m" -> 60
    [] ch = "h" -> 3600
    [] ch = "d" -> 24 * 3600
    [] ch = "w" -> 7 * 24 * 3600
    [] ch = "M" -> 30 * 24 * 3600
    [] ch = "y" -> 365 * 24 * 3600
    [] OTHER -> 0

\* C12: units and defaults.  The timeseries built from a frame has the
\* interval and the number of samples that the documented unit table gives
\* ("1M1d": 30 samples, "1y1d": 365), with an interval of one minute and a
\* total of 15 intervals where the frame gives none.
C12_UnitsAndDefaults ==
  win # <<>> =>
    LET f == Sscanf(frame)
        i0 == DocumentedUnit(f.intervalUnit) * f.intervalNum
        interval == IF i0 = 0 THEN 60 ELSE i0
        t0 == DocumentedUnit(f.totalUnit) * f.totalNum
        total == IF t0 = 0 THEN interval * 15 ELSE t0
    IN  /\ win[1].interval = interval
        /\ Len(win[1].samples) = Quo(total, interval)
        /\ frame = <<"1", "M", "1", "d">> => Len(win[1].samples) = 30
        /\ frame = <<"1", "y", "1", "d">> => Len(win[1].samples) = 365

HoldsTs(t) == tsLock = t
HoldsSample(t) == \E b \in Samples : bLock[b] = t

\* A goroutine that has returned holds no mutex, and one that is about to
\* lock the timeseries' mutex holds no sample's mutex.
LockDiscipline ==
  \A t \in Threads :
    /\ rpc[t] = "idle" => ~HoldsTs(t) /\ ~HoldsSample(t)
    /\ rpc[t] = "lock" => ~HoldsSample(t)

\* C15: no operation blocks for ever.  Whatever Adds, MarshalJSONs and Resets
\* the goroutines call on the timeseries of gauges, under fair scheduling
\* every call returns: whenever a call is under way, a state follows in
\* which all calls made have returned (so no set of calls waits in a
\* circle).  The timeseries' mutex is never locked by a goroutine that holds
\* a sample's mutex, and a call has unlocked every mutex it locked when it
\* returns.
C15_EveryCallReturns ==
  /\ (\E t \in Threads : rpc[t] # "idle") ~> (\A t \in Threads : rpc[t] = "idle")
  /\ []LockDiscipline

\* C15 witness: a Reset waits for the mutex of a sample that is held by a
\* goroutine inside Add or MarshalJSON, which holds the timeseries' mutex
\* too.
C15_Witness ==
  \E t \in Threads : \E u \in Threads :
    /\ t # u
    /\ rpc[t] = "res_lock"
    /\ bLock[rcur[t]] = u
    /\ HoldsTs(u)

\* The positions at which the next step of a goroutine reads or writes
\* ts.samples.
SamplesAccess ==
  {"roll", "all_lock", "rot_tmp", "rot_shift", "rot_front", "rot_lock",
   "add_lock", "json_lock", "res_read"}

\* C16: ts.samples is only read and written by a goroutine that holds the
\* timeseries' mutex, in Add, MarshalJSON, Reset and roll alike; and a Reset
\* that is about to return has reset each of the NBuckets samples.
C16_SamplesUnderLock ==
  \A t \in Threads :
    /\ rpc[t] \in SamplesAccess => HoldsTs(t)
    /\ (rpc[t] = "res_do" /\ ri[t] = Len(ring)) =>
         visited[t] \cup {rcur[t]} = Samples

\* C20: ts.samples always has NBuckets elements; whenever no roll is in the
\* middle of a pass of its loop they are the NBuckets samples made by
\* newTimeseries, each once; and when a roll that found NBuckets or more
\* intervals elapsed (the first roll of all included) is over, every sample
\* is as new.
C20_RingIntegrity ==
  /\ DOMAIN ring = 1 .. NBuckets
  /\ (\A t \in Threads : rpc[t] \notin {"rot_shift", "rot_front"}) =>
       /\ {ring[i] : i \in DOMAIN ring} = Samples
       /\ \A i \in DOMAIN ring : \A j \in DOMAIN ring :
            ring[i] = ring[j] => i = j
  /\ \A t \in Threads :
       (rfull[t] /\ rpc[t] \in {"add_lock", "json_lock"} /\ ri[t] = 1) =>
         \A b \in Samples : heap[b] = Builder("g")

\* C20 witness: all calls have returned; the first one rolled over all
\* samples, a later one rotated them, and a sample holds a value.
C20_Witness ==
  /\ \A t \in Threads : rpc[t] = "idle"
  /\ rcalls = MaxRCalls
  /\ rnow > 0
  /\ ring # [i \in Samples |-> i]
  /\ \E b \in Samples : heap[b] # Builder("g")

=============================================================================
